---- MODULE Spec2Model ----
(***************************************************************************)
(* Document / Node ownership layer of libxml2_rs                           *)
(* (src/src/tree/document.rs, src/src/tree/node.rs).                       *)
(*                                                                         *)
(* The native libxml2 tree is the record `heap`; the Rust side is the      *)
(* wrapper objects (_Node allocations, one slot each), the per-document    *)
(* identity map `nodes`, and the Rc strong counts, which are derived from  *)
(* who holds what.  Every public operation of Node and Document is one     *)
(* action; the drops that Rc performs when a count reaches zero are part   *)
(* of the action that releases the last reference (operator Settle).       *)
(*                                                                         *)
(* Scope of the native model: element nodes only, each with its name, its  *)
(* attribute list (no namespaces, no DTD defaults) and its text as one     *)
(* `content` field; strings are byte sequences, so that the conversion to  *)
(* and from C strings is visible.  xmlAddChild is offered                  *)
(* a child that is natively detached and is not an ancestor of the parent, *)
(* xmlAddPrevSibling a sibling that is not an ancestor of self and a self  *)
(* that has a parent: outside of these the result depends on the libxml2   *)
(* release.  A dereference of freed memory is undefined behaviour: the     *)
(* call that commits it sets `ub` (its Rust-side effects are the ones the  *)
(* code performs, its native effects are shown on the stale memory), and   *)
(* nothing is modelled after it: no operation is enabled once ub holds,    *)
(* since the process may then do anything.                                 *)
(*                                                                         *)
(* Specifications: Spec (tree and ownership of one Document), SpecContent  *)
(* (names, attributes, text, serialization, with strings that may hold a   *)
(* NUL byte), SpecAttr (the attribute operations alone), SpecImport (two   *)
(* Documents), SpecType (children that are elements or text, a natively    *)
(* made node of any type_ tag, and Node::wrap), SpecParse (parse calls one *)
(* at a time) and SpecOverlap (two parse calls that overlap).              *)
(***************************************************************************)
EXTENDS Integers, Sequences, FiniteSets, TLC

\* ------------------------------------------------------------ bounds
MaxHandles == 4        \* native node addresses 1..MaxHandles
MaxWrappers == 3       \* simultaneously allocated _Node objects
MaxOps == 6            \* operations performed on the Document and its Nodes
FreeCap == 2           \* the xmlFreeNode call counter saturates here
MaxDiag == 3           \* diagnostics collected by one parse call
MaxImportOps == 5      \* operations performed where two Documents exist
MaxTag == 22           \* type_ tags 0..MaxTag are read from native nodes
MaxTypeOps == 3        \* operations performed where node types vary

NULL == 0
Handles == 1..MaxHandles
Wrappers == 1..MaxWrappers
\* Document 1 is the parsed document every specification starts with;
\* document 2 exists only where a second Document has been made.
Docs == {1, 2}
\* The xmlDocPtr of document d, as the parent pointer of a top-level node.
DocPtr(d) == MaxHandles + d
DocPtrs == {DocPtr(d) : d \in Docs}
Diags == {"warning", "error"}
Callers == {1}
\* The parse calls of the process: those of Callers, which call one at a time,
\* and one more whose call may overlap theirs.
Calls == {1, 2}

VARIABLES
  heap,      \* the native tree: per handle its memory state, type_, parent,
             \* children, name, properties and content; the documents'
             \* top-level lists; the scratch buffers in existence
  alive,     \* [Wrappers -> BOOLEAN]: the _Node allocation exists
  node_ptr,  \* _Node.node_ptr
  document,  \* _Node.document
  unlinked,  \* _Node.unlinked
  held,      \* [Wrappers -> BOOLEAN]: the caller holds a Node for this _Node
  nodes,     \* _Document.nodes: [Docs -> [Handles -> Wrappers \cup {0}]]
  docobj,    \* [Docs -> {"none","live","dropped"}]: the _Document allocation
  doc_refs,  \* [Docs -> 0..1]: the caller holds the Document
  ub,        \* freed memory has been dereferenced or freed again
  ret,       \* the last operation: its name, arguments and result
  ops,       \* the number of operations performed so far
  handler,   \* the process-wide structured error context: 0 or the installing call
  ppc,       \* [Calls -> position in parse_handler]
  errors,    \* [Calls -> Seq(Diags)]: the Box<Vec<XmlError>> of the call
  pdoc,      \* [Calls -> result of the foreign parser]
  presult,   \* [Calls -> what parse returned]
  ptrace,    \* [Calls -> the foreign calls of the current parse, in order]
  nullFrees, \* [Calls -> xmlFreeDoc calls of the call on a null handle]
  emitted    \* [Calls -> Seq(Diags)]: what the parser of the call reported

treeVars == <<heap, alive, node_ptr, document, unlinked, held, nodes, docobj,
              doc_refs, ub, ret, ops>>
parseVars == <<handler, ppc, errors, pdoc, presult, ptrace, nullFrees, emitted>>
vars == <<treeVars, parseVars>>

\* ------------------------------------------------------------ NodeType
\* enum NodeType, in the order of its declaration.
NodeType ==
  <<"ElementNode", "AttributeNode", "TextNode", "CDataSectionNode",
    "EntityRefNode", "EntityNode", "PiNode", "CommentNode", "DocumentNode",
    "DocumentTypeNode", "DocumentFragNode", "NotationNode", "HtmlDocumentNode",
    "DTDNode", "ElementDecl", "AttributeDecl", "EntityDecl", "NamespaceDecl",
    "XIncludeStart", "XIncludeEnd", "DOCBDocumentNode">>

\* The values a native node's type_ field is given here.
Tags == 0..MaxTag

\* A faulty conversion: every tag but the first is unrecognized.
from_c_int_elementOnly(i) ==
  CASE i = 1 -> "ElementNode"
    [] OTHER -> "None"

from_c_int(i) ==
  CASE i = 1 -> "ElementNode"
    [] i = 2 -> "AttributeNode"
    [] i = 3 -> "TextNode"
    [] i = 4 -> "CDataSectionNode"
    [] i = 5 -> "EntityRefNode"
    [] i = 6 -> "EntityNode"
    [] i = 7 -> "PiNode"
    [] i = 8 -> "CommentNode"
    [] i = 9 -> "DocumentNode"
    [] i = 10 -> "DocumentTypeNode"
    [] i = 11 -> "DocumentFragNode"
    [] i = 12 -> "NotationNode"
    [] i = 13 -> "HtmlDocumentNode"
    [] i = 14 -> "DTDNode"
    [] i = 15 -> "ElementDecl"
    [] i = 16 -> "AttributeDecl"
    [] i = 17 -> "EntityDecl"
    [] i = 18 -> "NamespaceDecl"
    [] i = 19 -> "XIncludeStart"
    [] i = 20 -> "XIncludeEnd"
    [] i = 21 -> "DOCBDocumentNode"
    [] OTHER -> "None"

XML_ELEMENT_NODE == 1
XML_TEXT_NODE == 3
XML_DOCUMENT_NODE == 9
XML_DOCUMENT_FRAG_NODE == 11

\* The types of the children a parsed element has here: elements and text.
ChildTags == {XML_ELEMENT_NODE, XML_TEXT_NODE}

\* ------------------------------------------------------------ strings
\* A &str is the sequence of its bytes.
NUL == 0

\* The strings callers pass: "a", "b" and "a\0b".
Strs == {<<97>>, <<98>>, <<97, 0, 98>>}

\* The texts callers append: "", "a" and "\0".
Texts == {<<>>, <<97>>, <<0>>}

HasNul(s) == \E i \in 1..Len(s) : s[i] = NUL

\* CString::new(s): Err(NulError) when s holds a NUL byte; otherwise the bytes
\* followed by the terminator.
CString_new(s) ==
  IF HasNul(s) THEN [ok |-> FALSE, bytes |-> <<>>]
  ELSE [ok |-> TRUE, bytes |-> Append(s, NUL)]

\* What C reads at a char pointer, and CStr::from_ptr(p).to_bytes(): the bytes
\* before the first NUL.
from_ptr(p) ==
  LET n == CHOOSE i \in 1..Len(p) : p[i] = NUL /\ \A j \in 1..(i - 1) : p[j] # NUL
  IN  SubSeq(p, 1, n - 1)

\* str::from_utf8(bytes).unwrap().to_owned(); the bytes used here are ASCII.
to_owned(bytes) == bytes

\* The position of the first property named name in the list, 0 when absent.
PropIndex(ps, name) ==
  IF \E i \in 1..Len(ps) : ps[i].name = name
  THEN CHOOSE i \in 1..Len(ps) :
         ps[i].name = name /\ \A j \in 1..(i - 1) : ps[j].name # name
  ELSE 0

\* xmlHasProp: the attribute of that name (its position), or null (0).
xmlHasProp(hp, h, cname) == PropIndex(hp.properties[h], from_ptr(cname))

\* xmlGetProp: a fresh copy of the attribute's value, as <<copy>>, or null, as
\* <<>>.
xmlGetProp(hp, h, cname) ==
  LET i == xmlHasProp(hp, h, cname)
  IN  IF i = 0 THEN <<>> ELSE <<Append(hp.properties[h][i].value, NUL)>>

\* Faulty variant: a new attribute record is appended even when the name is set.
xmlSetProp_append(hp, h, cname, cvalue) ==
  IF hp.type[h] # XML_ELEMENT_NODE THEN hp
  ELSE [hp EXCEPT !.properties[h] =
          Append(@, [name |-> from_ptr(cname), value |-> from_ptr(cvalue)])]

\* xmlSetProp: replaces the value of the attribute of that name, or appends a
\* new attribute to the list; only element nodes carry attributes.
xmlSetProp(hp, h, cname, cvalue) ==
  LET i == xmlHasProp(hp, h, cname)
  IN  IF hp.type[h] # XML_ELEMENT_NODE THEN hp
      ELSE IF i # 0
      THEN [hp EXCEPT !.properties[h][i].value = from_ptr(cvalue)]
      ELSE [hp EXCEPT !.properties[h] =
              Append(@, [name |-> from_ptr(cname), value |-> from_ptr(cvalue)])]

\* xmlRemoveProp: takes the attribute at position i out of the list, frees it.
xmlRemoveProp(hp, h, i) ==
  [hp EXCEPT !.properties[h] = SubSeq(@, 1, i - 1) \o SubSeq(@, i + 1, Len(@))]

xmlNodeSetName(hp, h, cname) == [hp EXCEPT !.name[h] = from_ptr(cname)]

\* xmlNodeAddContentLen: appends the first len bytes at the pointer to the
\* node's text.
xmlNodeAddContentLen(hp, h, cptr, len) ==
  [hp EXCEPT !.content[h] = @ \o SubSeq(cptr, 1, len)]

\* ------------------------------------------------------------ native tree
Min(a, b) == IF a < b THEN a ELSE b

Remove(s, x) == SelectSeq(s, LAMBDA y : y # x)

IndexOf(s, x) == CHOOSE i \in 1..Len(s) : s[i] = x

InSeq(s, x) == \E i \in 1..Len(s) : s[i] = x

RECURSIVE Subtree(_, _)
\* h and everything below it, by the children lists.
Subtree(hp, h) ==
  {h} \cup UNION {Subtree(hp, hp.children[h][i]) : i \in 1..Len(hp.children[h])}

\* The nodes the document's tree contains.
TreeOf(hp, d) ==
  UNION {Subtree(hp, hp.dchildren[d][i]) : i \in 1..Len(hp.dchildren[d])}

\* The sibling list h is in.
Siblings(hp, h) ==
  IF hp.parent[h] = NULL THEN <<h>>
  ELSE IF hp.parent[h] \in DocPtrs
       THEN hp.dchildren[hp.parent[h] - MaxHandles]
       ELSE hp.children[hp.parent[h]]

\* (*node_ptr).children
FirstChild(hp, h) ==
  IF hp.children[h] = <<>> THEN NULL ELSE Head(hp.children[h])

\* (*node_ptr).next
NextSibling(hp, h) ==
  LET s == Siblings(hp, h)
      i == IndexOf(s, h)
  IN  IF i < Len(s) THEN s[i + 1] ELSE NULL

xmlGetLastChild(hp, h) ==
  IF hp.children[h] = <<>> THEN NULL ELSE hp.children[h][Len(hp.children[h])]

xmlDocGetRootElement(hp, d) ==
  LET els == SelectSeq(hp.dchildren[d], LAMBDA h : hp.type[h] = XML_ELEMENT_NODE)
  IN  IF els = <<>> THEN NULL ELSE Head(els)

\* A faulty unlink: the siblings that follow cur leave the list with it.
xmlUnlinkNode_siblings(hp, cur) ==
  LET p == hp.parent[cur]
  IN  IF p = NULL THEN hp
      ELSE IF p \in DocPtrs
      THEN [hp EXCEPT !.parent[cur] = NULL,
                      !.dchildren[p - MaxHandles] = SubSeq(@, 1, IndexOf(@, cur) - 1)]
      ELSE [hp EXCEPT !.parent[cur] = NULL,
                      !.children[p] = SubSeq(@, 1, IndexOf(@, cur) - 1)]

\* Detaches cur from its parent and siblings; its subtree stays below it.
xmlUnlinkNode(hp, cur) ==
  LET p == hp.parent[cur]
  IN  IF p = NULL THEN hp
      ELSE IF p \in DocPtrs
      THEN [hp EXCEPT !.parent[cur] = NULL,
                      !.dchildren[p - MaxHandles] = Remove(@, cur)]
      ELSE [hp EXCEPT !.parent[cur] = NULL,
                      !.children[p] = Remove(@, cur)]

\* NULL when parent and cur are the same node, cur otherwise.
xmlAddChildResult(parent, cur) == IF parent = cur THEN NULL ELSE cur

\* Appends the detached node cur as the last child of parent.
xmlAddChild(hp, parent, cur) ==
  IF xmlAddChildResult(parent, cur) = NULL THEN hp
  ELSE [hp EXCEPT !.parent[cur] = parent,
                  !.children[parent] = Append(@, cur),
                  !.linked[cur] = TRUE]

InsertBefore(s, cur, elem) ==
  LET i == IndexOf(s, cur)
  IN  SubSeq(s, 1, i - 1) \o <<elem>> \o SubSeq(s, i, Len(s))

xmlAddPrevSiblingResult(cur, elem) == IF cur = elem THEN NULL ELSE elem

\* Unlinks elem, then inserts it immediately before cur under cur's parent.
xmlAddPrevSibling(hp, cur, elem) ==
  IF xmlAddPrevSiblingResult(cur, elem) = NULL THEN hp
  ELSE LET h1 == xmlUnlinkNode(hp, elem)
           p == h1.parent[cur]
       IN  IF p \in DocPtrs
           THEN [h1 EXCEPT !.parent[elem] = p,
                           !.dchildren[p - MaxHandles] = InsertBefore(@, cur, elem),
                           !.linked[elem] = TRUE]
           ELSE [h1 EXCEPT !.parent[elem] = p,
                           !.children[p] = InsertBefore(@, cur, elem),
                           !.linked[elem] = TRUE]

\* Unlinks root, then puts it in the place of the document's first element
\* child (which is left detached), or appends it when there is none.
xmlDocSetRootElement(hp, d, root) ==
  LET h1 == xmlUnlinkNode(hp, root)
      old == xmlDocGetRootElement(h1, d)
  IN  IF old = NULL
      THEN [h1 EXCEPT !.parent[root] = DocPtr(d),
                      !.dchildren[d] = Append(@, root),
                      !.linked[root] = TRUE]
      ELSE [h1 EXCEPT !.parent[root] = DocPtr(d),
                      !.parent[old] = NULL,
                      !.dchildren[d] = [i \in 1..Len(@) |->
                                          IF @[i] = old THEN root ELSE @[i]],
                      !.linked[root] = TRUE]

\* The address xmlNewDocNode returns: the lowest one never allocated.
FreshHandle(hp) ==
  IF \E h \in Handles : hp.mem[h] = "unalloc"
  THEN CHOOSE h \in Handles : hp.mem[h] = "unalloc"
                              /\ \A g \in Handles : hp.mem[g] = "unalloc" => h <= g
  ELSE NULL

\* A faulty constructor: the new node is appended to the document's top level.
xmlNewDocNode_attached(hp, d, h, cname) ==
  [hp EXCEPT !.mem[h] = "live", !.type[h] = XML_ELEMENT_NODE,
             !.parent[h] = DocPtr(d), !.children[h] = <<>>,
             !.dchildren[d] = Append(@, h), !.linked[h] = TRUE,
             !.name[h] = from_ptr(cname), !.properties[h] = <<>>,
             !.content[h] = <<>>, !.copyOf[h] = NULL]

xmlNewDocNode(hp, d, h, cname) ==
  [hp EXCEPT !.mem[h] = "live", !.type[h] = XML_ELEMENT_NODE,
             !.parent[h] = NULL, !.children[h] = <<>>,
             !.name[h] = from_ptr(cname), !.properties[h] = <<>>,
             !.content[h] = <<>>, !.copyOf[h] = NULL]

\* The nodes of the subtree of h, parents before children, children in order.
RECURSIVE Preorder(_, _)
RECURSIVE PreorderAll(_, _)
Preorder(hp, h) == <<h>> \o PreorderAll(hp, hp.children[h])

PreorderAll(hp, s) ==
  IF s = <<>> THEN <<>> ELSE Preorder(hp, Head(s)) \o PreorderAll(hp, Tail(s))

\* The addresses never allocated, ascending.
RECURSIVE Ascending(_)
Ascending(hs) ==
  IF hs = {} THEN <<>>
  ELSE LET h == CHOOSE x \in hs : \A y \in hs : x <= y
       IN  <<h>> \o Ascending(hs \ {h})

Unallocated(hp) == Ascending({h \in Handles : hp.mem[h] = "unalloc"})

\* What xmlDocCopyNode(node, doc, 1) returns: the copy of node, or null when
\* the copies cannot all be allocated.
xmlDocCopyNodeResult(hp, node) ==
  IF Len(Unallocated(hp)) < Len(Preorder(hp, node)) THEN NULL
  ELSE Head(Unallocated(hp))

\* Faulty variant: the copy is made without attributes and children
\* (extended = 0).
xmlDocCopyNode_shallow(hp, node, d) ==
  IF xmlDocCopyNodeResult(hp, node) = NULL THEN hp
  ELSE LET c == xmlDocCopyNodeResult(hp, node)
       IN  [hp EXCEPT !.mem[c] = "live", !.type[c] = hp.type[node],
                      !.parent[c] = NULL, !.children[c] = <<>>,
                      !.name[c] = hp.name[node], !.properties[c] = <<>>,
                      !.content[c] = hp.content[node], !.copyOf[c] = node]

\* Faulty variant: the copy is also appended to the children of doc's root.
xmlDocCopyNode_attached(hp, node, d) ==
  IF xmlDocCopyNodeResult(hp, node) = NULL THEN hp
  ELSE LET src == Preorder(hp, node)
           new == Unallocated(hp)
           to(s) == new[IndexOf(src, s)]
           from(c) == src[IndexOf(new, c)]
           copies == {new[i] : i \in 1..Len(src)}
           root == xmlDocGetRootElement(hp, d)
           h1 == [hp EXCEPT
                   !.mem = [h \in Handles |-> IF h \in copies THEN "live" ELSE @[h]],
                   !.type = [h \in Handles |->
                              IF h \in copies THEN hp.type[from(h)] ELSE @[h]],
                   !.parent = [h \in Handles |->
                                IF h = to(node) THEN NULL
                                ELSE IF h \in copies THEN to(hp.parent[from(h)])
                                ELSE @[h]],
                   !.children = [h \in Handles |->
                                  IF h \in copies
                                  THEN [i \in 1..Len(hp.children[from(h)]) |->
                                          to(hp.children[from(h)][i])]
                                  ELSE @[h]],
                   !.linked = [h \in Handles |->
                                IF h \in copies THEN h # to(node) ELSE @[h]],
                   !.name = [h \in Handles |->
                              IF h \in copies THEN hp.name[from(h)] ELSE @[h]],
                   !.properties = [h \in Handles |->
                                    IF h \in copies THEN hp.properties[from(h)]
                                    ELSE @[h]],
                   !.content = [h \in Handles |->
                                 IF h \in copies THEN hp.content[from(h)] ELSE @[h]],
                   !.copyOf = [h \in Handles |->
                                IF h \in copies THEN from(h) ELSE @[h]]]
       IN  IF root = NULL THEN h1 ELSE xmlAddChild(h1, root, to(node))

\* xmlDocCopyNode(node, doc, 1): a recursive copy of node, its attributes, text
\* and children at fresh addresses, bound to doc and attached nowhere.
xmlDocCopyNode(hp, node, d) ==
  IF xmlDocCopyNodeResult(hp, node) = NULL THEN hp
  ELSE LET src == Preorder(hp, node)
           new == Unallocated(hp)
           to(s) == new[IndexOf(src, s)]
           from(c) == src[IndexOf(new, c)]
           copies == {new[i] : i \in 1..Len(src)}
       IN  [hp EXCEPT
             !.mem = [h \in Handles |-> IF h \in copies THEN "live" ELSE @[h]],
             !.type = [h \in Handles |->
                        IF h \in copies THEN hp.type[from(h)] ELSE @[h]],
             !.parent = [h \in Handles |->
                          IF h = to(node) THEN NULL
                          ELSE IF h \in copies THEN to(hp.parent[from(h)])
                          ELSE @[h]],
             !.children = [h \in Handles |->
                            IF h \in copies
                            THEN [i \in 1..Len(hp.children[from(h)]) |->
                                    to(hp.children[from(h)][i])]
                            ELSE @[h]],
             !.linked = [h \in Handles |->
                          IF h \in copies THEN h # to(node) ELSE @[h]],
             !.name = [h \in Handles |->
                        IF h \in copies THEN hp.name[from(h)] ELSE @[h]],
             !.properties = [h \in Handles |->
                              IF h \in copies THEN hp.properties[from(h)]
                              ELSE @[h]],
             !.content = [h \in Handles |->
                           IF h \in copies THEN hp.content[from(h)] ELSE @[h]],
             !.copyOf = [h \in Handles |->
                          IF h \in copies THEN from(h) ELSE @[h]]]

\* What the serializers write for the subtree of h: its name, attributes, text
\* and, in order, its children.
RECURSIVE Dump(_, _)
Dump(hp, h) ==
  <<hp.name[h], hp.properties[h], hp.content[h],
    [i \in 1..Len(hp.children[h]) |-> Dump(hp, hp.children[h][i])]>>

\* xmlBufferCreate, xmlDocDumpMemoryEnc, xmlDocDumpFormatMemoryEnc: each
\* allocates one buffer the caller has to release.
xmlBufferCreate(hp) == [hp EXCEPT !.bufs = @ + 1]

xmlDocDumpMemoryEnc(hp, d) == [hp EXCEPT !.bufs = @ + 1]

xmlBufferFree(hp) == [hp EXCEPT !.bufs = @ - 1]

\* Releases cur and, recursively, its children; cur is NOT unlinked first.
xmlFreeNode(hp, cur) ==
  LET sub == Subtree(hp, cur)
  IN  [hp EXCEPT !.mem = [h \in Handles |-> IF h \in sub THEN "freed" ELSE @[h]],
                 !.freeCalls[cur] = Min(@ + 1, FreeCap)]

\* xmlFreeNode(cur) touches memory that is already released.
FreeTouchesFreed(hp, cur) ==
  \E h \in Subtree(hp, cur) : hp.mem[h] = "freed"

\* Releases the document and every node its tree contains.
xmlFreeDoc(hp, d) ==
  LET sub == TreeOf(hp, d)
  IN  [hp EXCEPT !.mem = [h \in Handles |-> IF h \in sub THEN "freed" ELSE @[h]],
                 !.dmem[d] = "freed",
                 !.dfreeCalls[d] = Min(@ + 1, FreeCap)]

FreeDocTouchesFreed(hp, d) ==
  hp.dmem[d] = "freed" \/ \E h \in TreeOf(hp, d) : hp.mem[h] = "freed"


\* ------------------------------------------------------------ Rc and Drop
\* Faulty variant: the back-reference of a _Node does not count (a Weak).
StrongCount_weak(d, rf, al, dc) == rf[d]

\* Rc::strong_count of the _Document: the caller's Document handles plus the
\* DocumentRef each existing _Node holds in its `document` field.
StrongCount(d, rf, al, dc) ==
  rf[d] + Cardinality({w \in Wrappers : al[w] /\ dc[w] = d})

\* Rc::strong_count of the _Node is zero: no Node of the caller and no entry of
\* an identity map points to it.
Unreferenced(w, hd, nd) ==
  ~hd[w] /\ \A d \in Docs, h \in Handles : nd[d][h] # w

\* Drop for _Node: a wrapper marked unlinked frees its native node.
Drop_Node(st, np, un, w) ==
  IF un[w]
  THEN [hp |-> xmlFreeNode(st.hp, np[w]),
        ub |-> st.ub \/ FreeTouchesFreed(st.hp, np[w])]
  ELSE st

RECURSIVE DropNodes(_, _, _, _)
DropNodes(st, np, un, ws) ==
  IF ws = {} THEN st
  ELSE LET w == CHOOSE x \in ws : \A y \in ws : x <= y
       IN  DropNodes(Drop_Node(st, np, un, w), np, un, ws \ {w})

\* Drop for _Document: frees the native document.
Drop_Document(st, d) ==
  [hp |-> xmlFreeDoc(st.hp, d), ub |-> st.ub \/ FreeDocTouchesFreed(st.hp, d)]

RECURSIVE DropDocuments(_, _)
DropDocuments(st, ds) ==
  IF ds = {} THEN st
  ELSE LET d == CHOOSE x \in ds : \A y \in ds : x <= y
       IN  DropDocuments(Drop_Document(st, d), ds \ {d})

NoRet == [op |-> "none", self |-> 0, arg |-> 0, res |-> "none", out |-> 0]

Ret(op, self, arg, res, out) ==
  [op |-> op, self |-> self, arg |-> arg, res |-> res, out |-> out]

\* The end of every operation: the _Node objects whose strong count fell to
\* zero are dropped, then a _Document whose strong count fell to zero is
\* dropped (xmlFreeDoc first, then its fields: the map and the wrappers only
\* the map held).  Each intermediate value is bound once, as the only element
\* of a set.
Settle(al, np, dc, un, hd, nd, rf, hp, u, r) ==
  \E dead1 \in {{w \in Wrappers : al[w] /\ Unreferenced(w, hd, nd)}} :
  \E st1 \in {DropNodes([hp |-> hp, ub |-> u], np, un, dead1)} :
  \E al1 \in {[w \in Wrappers |-> al[w] /\ w \notin dead1]} :
  \E gone \in {{d \in Docs : docobj[d] = "live" /\ StrongCount(d, rf, al1, dc) = 0}} :
  \E st2 \in {DropDocuments(st1, gone)} :
  \E nd2 \in {[d \in Docs |-> IF d \in gone THEN [h \in Handles |-> 0] ELSE nd[d]]} :
  \E dead2 \in {{w \in Wrappers : al1[w] /\ Unreferenced(w, hd, nd2)}} :
  \E st3 \in {DropNodes(st2, np, un, dead2)} :
  \E al2 \in {[w \in Wrappers |-> al1[w] /\ w \notin dead2]} :
      /\ alive' = al2
      /\ node_ptr' = [w \in Wrappers |-> IF al2[w] THEN np[w] ELSE NULL]
      /\ document' = [w \in Wrappers |-> IF al2[w] THEN dc[w] ELSE 0]
      /\ unlinked' = [w \in Wrappers |-> al2[w] /\ un[w]]
      /\ held' = [w \in Wrappers |-> al2[w] /\ hd[w]]
      /\ nodes' = nd2
      /\ docobj' = [d \in Docs |-> IF d \in gone THEN "dropped" ELSE docobj[d]]
      /\ doc_refs' = rf
      /\ heap' = st3.hp
      /\ ub' = st3.ub
      /\ ret' = r
      /\ ops' = ops + 1

\* An operation that changes nothing but what it returns.
Returns(r, u) ==
  /\ ret' = r
  /\ ops' = ops + 1
  /\ ub' = u
  /\ UNCHANGED <<heap, alive, node_ptr, document, unlinked, held, nodes, docobj,
                 doc_refs>>

\* An operation that changes the native tree only.
Mutates(hp, r, u) ==
  /\ heap' = hp
  /\ ret' = r
  /\ ops' = ops + 1
  /\ ub' = u
  /\ UNCHANGED <<alive, node_ptr, document, unlinked, held, nodes, docobj,
                 doc_refs>>

\* The operation dereferences released memory.
Touches(hs) == \E h \in hs : h # NULL /\ heap.mem[h] = "freed"

\* The slot of the next Rc::new(RefCell::new(_Node)).
FreshWrapper ==
  IF \E w \in Wrappers : ~alive[w]
  THEN CHOOSE w \in Wrappers : ~alive[w] /\ \A x \in Wrappers : ~alive[x] => w <= x
  ELSE 0

\* Node::wrap: a new _Node, always Linked.
wrap(ptr, d) == [node_ptr |-> ptr, document |-> d, unlinked |-> FALSE]

\* _Document::insert_node: HashMap::insert, replacing the entry of the key.
insert_node(nd, d, ptr, w) == [nd EXCEPT ![d][ptr] = w]

\* Faulty variant: unlink leaves the entry in the map.
nodes_remove_kept(nd, d, ptr) == nd

\* HashMap::remove of the handle's entry.
nodes_remove(nd, d, ptr) == [nd EXCEPT ![d][ptr] = 0]

\* Node::wrap, insert_node of a clone, and the new Node handed to the caller:
\* the tail of ptr_as_option, ptr_as_result, get_root_element and Node::new.
WrapAndInsert(ptr, d, hp, u, op, self, arg, res) ==
  LET nw == FreshWrapper
      n == wrap(ptr, d)
  IN  Settle([alive EXCEPT ![nw] = TRUE],
             [node_ptr EXCEPT ![nw] = n.node_ptr],
             [document EXCEPT ![nw] = n.document],
             [unlinked EXCEPT ![nw] = n.unlinked],
             [held EXCEPT ![nw] = TRUE],
             insert_node(nodes, d, ptr, nw),
             doc_refs, hp, u, Ret(op, self, arg, res, nw))

\* Node::ptr_as_option
ptr_as_option(w, ptr, op) ==
  IF ptr = NULL
  THEN Returns(Ret(op, w, 0, "None", 0), ub \/ Touches({node_ptr[w]}))
  ELSE /\ FreshWrapper # 0
       /\ WrapAndInsert(ptr, document[w], heap, ub \/ Touches({node_ptr[w]}),
                        op, w, 0, "Some")

\* Faulty variant: the child is wrapped and registered before the null check.
ptr_as_result_unchecked(w, c, ptr, hp, op) ==
  /\ FreshWrapper # 0
  /\ WrapAndInsert(node_ptr[c], document[w], hp,
                   ub \/ Touches({node_ptr[w], node_ptr[c]}), op, w, c,
                   IF ptr = NULL THEN "Err" ELSE "Ok")

\* Node::ptr_as_result
ptr_as_result(w, c, ptr, hp, op) ==
  IF ptr = NULL
  THEN Returns(Ret(op, w, c, "Err", 0), ub \/ Touches({node_ptr[w], node_ptr[c]}))
  ELSE /\ FreshWrapper # 0
       /\ WrapAndInsert(ptr, document[w], hp,
                        ub \/ Touches({node_ptr[w], node_ptr[c]}), op, w, c, "Ok")

Usable(w) == alive[w] /\ held[w]

\* The process runs: no undefined behaviour yet, and within the bound.
Running == ~ub /\ ops < MaxOps


\* ------------------------------------------------------------ initial state
\* Document::parse("<r><c></c><s></s></r>") has returned Ok: root 1 with the
\* children 2 and 3, named by their bytes, no attributes and no text; an empty
\* identity map, one Document handle with the caller.
InitHeap ==
  [mem |-> [h \in Handles |-> IF h <= 3 THEN "live" ELSE "unalloc"],
   type |-> [h \in Handles |-> IF h <= 3 THEN XML_ELEMENT_NODE ELSE 0],
   parent |-> [h \in Handles |-> IF h = 1 THEN DocPtr(1)
                                 ELSE IF h <= 3 THEN 1 ELSE NULL],
   children |-> [h \in Handles |-> IF h = 1 THEN <<2, 3>> ELSE <<>>],
   linked |-> [h \in Handles |-> h <= 3],
   freeCalls |-> [h \in Handles |-> 0],
   dchildren |-> [d \in Docs |-> IF d = 1 THEN <<1>> ELSE <<>>],
   dmem |-> [d \in Docs |-> IF d = 1 THEN "live" ELSE "none"],
   dfreeCalls |-> [d \in Docs |-> 0],
   name |-> [h \in Handles |-> IF h = 1 THEN <<114>>
                               ELSE IF h = 2 THEN <<99>>
                               ELSE IF h = 3 THEN <<115>> ELSE <<>>],
   properties |-> [h \in Handles |-> <<>>],
   content |-> [h \in Handles |-> <<>>],
   copyOf |-> [h \in Handles |-> NULL],
   bufs |-> 0]

InitTree ==
  /\ heap = InitHeap
  /\ alive = [w \in Wrappers |-> FALSE]
  /\ node_ptr = [w \in Wrappers |-> NULL]
  /\ document = [w \in Wrappers |-> 0]
  /\ unlinked = [w \in Wrappers |-> FALSE]
  /\ held = [w \in Wrappers |-> FALSE]
  /\ nodes = [d \in Docs |-> [h \in Handles |-> 0]]
  /\ docobj = [d \in Docs |-> IF d = 1 THEN "live" ELSE "none"]
  /\ doc_refs = [d \in Docs |-> IF d = 1 THEN 1 ELSE 0]
  /\ ub = FALSE
  /\ ret = NoRet
  /\ ops = 0

InitParse ==
  /\ handler = 0
  /\ ppc = [c \in Calls |-> "idle"]
  /\ errors = [c \in Calls |-> <<>>]
  /\ pdoc = [c \in Calls |-> "none"]
  /\ presult = [c \in Calls |-> "none"]
  /\ ptrace = [c \in Calls |-> <<>>]
  /\ nullFrees = [c \in Calls |-> 0]
  /\ emitted = [c \in Calls |-> <<>>]

Init == InitTree /\ InitParse

\* Document 1 is Document::parse("<r><c b=\"a\">a</c></r>"), root 1 with the
\* child 2; document 2 is Document::new(), which has no node.
ImportHeap ==
  [mem |-> [h \in Handles |-> IF h <= 2 THEN "live" ELSE "unalloc"],
   type |-> [h \in Handles |-> IF h <= 2 THEN XML_ELEMENT_NODE ELSE 0],
   parent |-> [h \in Handles |-> IF h = 1 THEN DocPtr(1)
                                 ELSE IF h = 2 THEN 1 ELSE NULL],
   children |-> [h \in Handles |-> IF h = 1 THEN <<2>> ELSE <<>>],
   linked |-> [h \in Handles |-> h <= 2],
   freeCalls |-> [h \in Handles |-> 0],
   dchildren |-> [d \in Docs |-> IF d = 1 THEN <<1>> ELSE <<>>],
   dmem |-> [d \in Docs |-> "live"],
   dfreeCalls |-> [d \in Docs |-> 0],
   name |-> [h \in Handles |-> IF h = 1 THEN <<114>>
                               ELSE IF h = 2 THEN <<99>> ELSE <<>>],
   properties |-> [h \in Handles |->
                     IF h = 2 THEN <<[name |-> <<98>>, value |-> <<97>>]>>
                     ELSE <<>>],
   content |-> [h \in Handles |-> IF h = 2 THEN <<97>> ELSE <<>>],
   copyOf |-> [h \in Handles |-> NULL],
   bufs |-> 0]

InitImport ==
  /\ heap = ImportHeap
  /\ alive = [w \in Wrappers |-> FALSE]
  /\ node_ptr = [w \in Wrappers |-> NULL]
  /\ document = [w \in Wrappers |-> 0]
  /\ unlinked = [w \in Wrappers |-> FALSE]
  /\ held = [w \in Wrappers |-> FALSE]
  /\ nodes = [d \in Docs |-> [h \in Handles |-> 0]]
  /\ docobj = [d \in Docs |-> "live"]
  /\ doc_refs = [d \in Docs |-> 1]
  /\ ub = FALSE
  /\ ret = NoRet
  /\ ops = 0
  /\ InitParse

\* The parsed document of InitHeap with children of the types t2 and t3, and
\* a node the caller has made with the native library itself (for example a
\* document fragment), detached, whose type is t4.
TypeHeap(t2, t3, t4) ==
  [InitHeap EXCEPT !.type[2] = t2, !.type[3] = t3,
                   !.mem[4] = "live", !.type[4] = t4]

InitType ==
  /\ \E t2, t3 \in ChildTags, t4 \in Tags : heap = TypeHeap(t2, t3, t4)
  /\ alive = [w \in Wrappers |-> FALSE]
  /\ node_ptr = [w \in Wrappers |-> NULL]
  /\ document = [w \in Wrappers |-> 0]
  /\ unlinked = [w \in Wrappers |-> FALSE]
  /\ held = [w \in Wrappers |-> FALSE]
  /\ nodes = [d \in Docs |-> [h \in Handles |-> 0]]
  /\ docobj = [d \in Docs |-> IF d = 1 THEN "live" ELSE "none"]
  /\ doc_refs = [d \in Docs |-> IF d = 1 THEN 1 ELSE 0]
  /\ ub = FALSE
  /\ ret = NoRet
  /\ ops = 0
  /\ InitParse

\* ------------------------------------------------------------ Document
HasDoc(d) == docobj[d] = "live" /\ doc_refs[d] > 0

\* The top-level nodes xmlDocGetRootElement reads: up to the first element.
RootScan(hp, d) ==
  LET s == hp.dchildren[d]
  IN  {s[i] : i \in {j \in 1..Len(s) :
                       \A k \in 1..(j - 1) : hp.type[s[k]] # XML_ELEMENT_NODE}}

\* Document::get_root_element
GetRootElement(d) ==
  /\ Running /\ HasDoc(d)
  /\ LET ptr == xmlDocGetRootElement(heap, d)
         u == ub \/ Touches(RootScan(heap, d))
     IN  IF ptr = NULL
         THEN Returns(Ret("get_root_element", 0, 0, "None", 0), u)
         ELSE /\ FreshWrapper # 0
              /\ WrapAndInsert(ptr, d, heap, u, "get_root_element", 0, 0, "Some")
  /\ UNCHANGED parseVars

\* Document::set_root_element
SetRootElement(d, w) ==
  /\ Running /\ HasDoc(d) /\ Usable(w)
  /\ Settle(alive, node_ptr, document, unlinked, held, nodes, doc_refs,
            xmlDocSetRootElement(heap, d, node_ptr[w]),
            ub \/ Touches({node_ptr[w]} \cup RootScan(heap, d)),
            Ret("set_root_element", DocPtr(d), w, "done", 0))
  /\ UNCHANGED parseVars

\* Document::ptr_as_option and Document::import_node: the node of any wrapper,
\* of this Document or of another, is copied into this Document.
ImportNode(d, w) ==
  /\ Running /\ HasDoc(d) /\ Usable(w)
  /\ LET new_node_ptr == xmlDocCopyNodeResult(heap, node_ptr[w])
         u == ub \/ Touches(Subtree(heap, node_ptr[w]))
     IN  IF new_node_ptr = NULL
         THEN Returns(Ret("import_node", DocPtr(d), w, "None", 0), u)
         ELSE /\ FreshWrapper # 0
              /\ WrapAndInsert(new_node_ptr, d,
                               xmlDocCopyNode(heap, node_ptr[w], d), u,
                               "import_node", DocPtr(d), w, "Some")
  /\ UNCHANGED parseVars

\* The caller drops one of its Document handles.
DropDoc(d) ==
  /\ Running /\ HasDoc(d)
  /\ Settle(alive, node_ptr, document, unlinked, held, nodes,
            [doc_refs EXCEPT ![d] = @ - 1], heap, ub,
            Ret("drop_doc", 0, 0, "done", 0))
  /\ UNCHANGED parseVars

\* ------------------------------------------------------------ Node
\* Node::new: CString::new(name).unwrap() panics on a NUL byte; xmlNewDocNode
\* returns a node, or null when it cannot allocate.
NodeNew(d, name) ==
  /\ Running /\ HasDoc(d)
  /\ LET c_name == CString_new(name)
     IN  IF ~c_name.ok
         THEN Returns(Ret("new", DocPtr(d), <<name>>, "panic", 0), ub)
         ELSE \/ /\ FreshHandle(heap) # NULL /\ FreshWrapper # 0
                 /\ WrapAndInsert(FreshHandle(heap), d,
                                  xmlNewDocNode(heap, d, FreshHandle(heap),
                                                c_name.bytes),
                                  ub, "new", DocPtr(d), <<name>>, "Ok")
              \/ Returns(Ret("new", DocPtr(d), <<name>>, "Err", 0), ub)
  /\ UNCHANGED parseVars

\* Node::wrap, called by the user of the crate with the pointer of a node it
\* has made with the native library: a new _Node that no identity map knows.
NodeWrap(d, h) ==
  /\ Running /\ HasDoc(d) /\ FreshWrapper # 0
  /\ heap.mem[h] = "live" /\ \A a \in Docs : h \notin TreeOf(heap, a)
  /\ LET nw == FreshWrapper
         n == wrap(h, d)
     IN  Settle([alive EXCEPT ![nw] = TRUE],
                [node_ptr EXCEPT ![nw] = n.node_ptr],
                [document EXCEPT ![nw] = n.document],
                [unlinked EXCEPT ![nw] = n.unlinked],
                [held EXCEPT ![nw] = TRUE],
                nodes, doc_refs, heap, ub, Ret("wrap", 0, h, "done", nw))
  /\ UNCHANGED parseVars

\* Node::get_first_child
GetFirstChild(w) ==
  /\ Running /\ Usable(w)
  /\ ptr_as_option(w, FirstChild(heap, node_ptr[w]), "get_first_child")
  /\ UNCHANGED parseVars

\* Node::get_last_child
GetLastChild(w) ==
  /\ Running /\ Usable(w)
  /\ ptr_as_option(w, xmlGetLastChild(heap, node_ptr[w]), "get_last_child")
  /\ UNCHANGED parseVars

\* Node::get_next_sibling
GetNextSibling(w) ==
  /\ Running /\ Usable(w)
  /\ ptr_as_option(w, NextSibling(heap, node_ptr[w]), "get_next_sibling")
  /\ UNCHANGED parseVars

\* Node::add_child
AddChild(w, c) ==
  /\ Running /\ Usable(w) /\ Usable(c) /\ w # c
  /\ \/ node_ptr[w] = node_ptr[c]
     \/ /\ heap.parent[node_ptr[c]] = NULL
        /\ node_ptr[w] \notin Subtree(heap, node_ptr[c])
  /\ ptr_as_result(w, c, xmlAddChildResult(node_ptr[w], node_ptr[c]),
                   xmlAddChild(heap, node_ptr[w], node_ptr[c]), "add_child")
  /\ UNCHANGED parseVars

\* Node::add_prev_sibling: new_sibling is moved in; it is handed back on
\* success and dropped on failure.
AddPrevSibling(w, s) ==
  /\ Running /\ Usable(w) /\ Usable(s) /\ w # s
  /\ \/ node_ptr[w] = node_ptr[s]
     \/ /\ heap.parent[node_ptr[w]] # NULL
        /\ node_ptr[w] \notin Subtree(heap, node_ptr[s])
  /\ LET u == ub \/ Touches({node_ptr[w], node_ptr[s]})
     IN  IF xmlAddPrevSiblingResult(node_ptr[w], node_ptr[s]) = NULL
         THEN Settle(alive, node_ptr, document, unlinked,
                     [held EXCEPT ![s] = FALSE], nodes, doc_refs, heap, u,
                     Ret("add_prev_sibling", w, s, "None", 0))
         ELSE Settle(alive, node_ptr, document, unlinked, held, nodes, doc_refs,
                     xmlAddPrevSibling(heap, node_ptr[w], node_ptr[s]), u,
                     Ret("add_prev_sibling", w, s, "Some", s))
  /\ UNCHANGED parseVars

\* Node::get_type
get_type(w) == from_c_int(heap.type[node_ptr[w]])

RECURSIVE ChildWalk(_, _, _)
\* The loop of Node::get_child_nodes: from cur along (*node_ptr).next until
\* it is null; a sibling chain holds each of the MaxHandles nodes at most once.
ChildWalk(hp, cur, left) ==
  IF cur = NULL \/ left = 0 THEN <<>>
  ELSE <<cur>> \o ChildWalk(hp, NextSibling(hp, cur), left - 1)

\* A faulty walk: it stops after the first child.
get_child_nodes_first(hp, h) == ChildWalk(hp, FirstChild(hp, h), 1)

\* The handles Node::get_child_nodes visits, in the order it pushes them.
get_child_nodes(hp, h) == ChildWalk(hp, FirstChild(hp, h), MaxHandles)

\* The slots of the next Rc::new(RefCell::new(_Node)) calls, in order.
FreshWrappers == Ascending({w \in Wrappers : ~alive[w]})

\* get_first_child and get_next_sibling wrap and register every handle of
\* ptrs through ptr_as_option; the caller receives the wrappers whose
\* position is in kept, the others stay with the identity map alone.
WrapChildren(w, ptrs, kept, op) ==
  LET k == Len(ptrs)
      new == SubSeq(FreshWrappers, 1, k)
      at(x) == CHOOSE i \in 1..k : new[i] = x
      made == {new[i] : i \in 1..k}
      d == document[w]
  IN  /\ Len(FreshWrappers) >= k
      /\ Settle([x \in Wrappers |-> alive[x] \/ x \in made],
                [x \in Wrappers |-> IF x \in made THEN ptrs[at(x)] ELSE node_ptr[x]],
                [x \in Wrappers |-> IF x \in made THEN d ELSE document[x]],
                [x \in Wrappers |-> IF x \in made THEN FALSE ELSE unlinked[x]],
                [x \in Wrappers |-> IF x \in made THEN at(x) \in kept ELSE held[x]],
                [nodes EXCEPT ![d] =
                   [h \in Handles |->
                      IF \E i \in 1..k : ptrs[i] = h
                      THEN new[CHOOSE i \in 1..k : ptrs[i] = h] ELSE @[h]]],
                doc_refs, heap,
                ub \/ Touches({node_ptr[w]} \cup {ptrs[i] : i \in 1..k}),
                Ret(op, w, 0, "done",
                    SelectSeq(new, LAMBDA x : at(x) \in kept)))

\* Node::get_child_nodes
GetChildNodes(w) ==
  /\ Running /\ Usable(w)
  /\ LET ptrs == get_child_nodes(heap, node_ptr[w])
     IN  WrapChildren(w, ptrs, 1..Len(ptrs), "get_child_nodes")
  /\ UNCHANGED parseVars

\* Node::get_child_elements: get_child_nodes, then the filter on get_type.
GetChildElements(w) ==
  /\ Running /\ Usable(w)
  /\ LET ptrs == get_child_nodes(heap, node_ptr[w])
     IN  WrapChildren(w, ptrs,
                      {i \in 1..Len(ptrs) :
                         from_c_int(heap.type[ptrs[i]]) = "ElementNode"},
                      "get_child_elements")
  /\ UNCHANGED parseVars

\* Node::get_type as an operation: the tag read and the variant returned.
GetType(w) ==
  /\ Running /\ Usable(w)
  /\ Returns(Ret("get_type", w, heap.type[node_ptr[w]], get_type(w), 0),
             ub \/ Touches({node_ptr[w]}))
  /\ UNCHANGED parseVars

\* A faulty guard: the node type is not looked at.
UnlinkGuard_anyType(w) == ~unlinked[w]

\* The guard of Node::unlink.
UnlinkGuard(w) ==
  /\ get_type(w) # "DocumentNode"
  /\ get_type(w) # "DocumentFragNode"
  /\ ~unlinked[w]

\* Node::unlink
Unlink(w) ==
  /\ Running /\ Usable(w)
  /\ IF UnlinkGuard(w)
     THEN Settle(alive, node_ptr, document, [unlinked EXCEPT ![w] = TRUE], held,
                 nodes_remove(nodes, document[w], node_ptr[w]), doc_refs,
                 xmlUnlinkNode(heap, node_ptr[w]),
                 ub \/ Touches({node_ptr[w]}),
                 Ret("unlink", w, 0, "done", 0))
     ELSE Returns(Ret("unlink", w, 0, "noop", 0), ub \/ Touches({node_ptr[w]}))
  /\ UNCHANGED parseVars

\* The caller drops its Node.
DropNode(w) ==
  /\ Running /\ Usable(w)
  /\ Settle(alive, node_ptr, document, unlinked, [held EXCEPT ![w] = FALSE],
            nodes, doc_refs, heap, ub, Ret("drop_node", w, 0, "done", 0))
  /\ UNCHANGED parseVars

\* ------------------------------------------------------------ content
\* Node::set_name
SetName(w, name) ==
  /\ Running /\ Usable(w)
  /\ LET c_name == CString_new(name)
     IN  IF ~c_name.ok
         THEN Returns(Ret("set_name", w, <<name>>, "panic", 0), ub)
         ELSE Mutates(xmlNodeSetName(heap, node_ptr[w], c_name.bytes),
                      Ret("set_name", w, <<name>>, "done", 0),
                      ub \/ Touches({node_ptr[w]}))
  /\ UNCHANGED parseVars

\* Node::append_text: nothing is done for an empty content.
AppendText(w, content) ==
  /\ Running /\ Usable(w)
  /\ LET c_len == Len(content)
         c_content == CString_new(content)
     IN  IF c_len > 0
         THEN IF ~c_content.ok
              THEN Returns(Ret("append_text", w, <<content>>, "panic", 0), ub)
              ELSE Mutates(xmlNodeAddContentLen(heap, node_ptr[w],
                                                c_content.bytes, c_len),
                           Ret("append_text", w, <<content>>, "done", 0),
                           ub \/ Touches({node_ptr[w]}))
         ELSE Returns(Ret("append_text", w, <<content>>, "noop", 0), ub)
  /\ UNCHANGED parseVars

\* Node::get_property: the copy xmlGetProp returns is read and then freed.
get_property(hp, h, name) ==
  LET value_ptr == xmlGetProp(hp, h, CString_new(name).bytes)
  IN  IF value_ptr = <<>> THEN <<>> ELSE <<to_owned(from_ptr(value_ptr[1]))>>

GetProperty(w, name) ==
  /\ Running /\ Usable(w)
  /\ LET c_name == CString_new(name)
         v == get_property(heap, node_ptr[w], name)
     IN  IF ~c_name.ok
         THEN Returns(Ret("get_property", w, <<name>>, "panic", 0), ub)
         ELSE IF v = <<>>
         THEN Returns(Ret("get_property", w, <<name>>, "None", 0),
                      ub \/ Touches({node_ptr[w]}))
         ELSE Returns(Ret("get_property", w, <<name>>, "Some", v[1]),
                      ub \/ Touches({node_ptr[w]}))
  /\ UNCHANGED parseVars

\* Node::get_properties: the names are collected by walking the property list,
\* then each value is fetched by name and inserted into the HashMap.
get_properties(hp, h) ==
  LET ps == hp.properties[h]
      attr_names == [i \in 1..Len(ps) |-> to_owned(ps[i].name)]
      value(name) == LET v == get_property(hp, h, name)
                     IN  IF v = <<>> THEN <<>> ELSE v[1]
  IN  [name \in {attr_names[i] : i \in 1..Len(attr_names)} |-> value(name)]

GetProperties(w) ==
  /\ Running /\ Usable(w)
  /\ Returns(Ret("get_properties", w, <<>>, "done",
                 get_properties(heap, node_ptr[w])),
             ub \/ Touches({node_ptr[w]}))
  /\ UNCHANGED parseVars

\* Node::set_property
SetProperty(w, name, value) ==
  /\ Running /\ Usable(w)
  /\ LET c_name == CString_new(name)
         c_value == CString_new(value)
     IN  IF ~c_name.ok \/ ~c_value.ok
         THEN Returns(Ret("set_property", w, <<name, value>>, "panic", 0), ub)
         ELSE Mutates(xmlSetProp(heap, node_ptr[w], c_name.bytes, c_value.bytes),
                      Ret("set_property", w, <<name, value>>, "done", 0),
                      ub \/ Touches({node_ptr[w]}))
  /\ UNCHANGED parseVars

\* Node::remove_property: silently does nothing when there is no such
\* attribute.
RemoveProperty(w, name) ==
  /\ Running /\ Usable(w)
  /\ LET c_name == CString_new(name)
     IN  IF ~c_name.ok
         THEN Returns(Ret("remove_property", w, <<name>>, "panic", 0), ub)
         ELSE LET attr_node == xmlHasProp(heap, node_ptr[w], c_name.bytes)
              IN  IF attr_node # 0
                  THEN Mutates(xmlRemoveProp(heap, node_ptr[w], attr_node),
                               Ret("remove_property", w, <<name>>, "done", 0),
                               ub \/ Touches({node_ptr[w]}))
                  ELSE Returns(Ret("remove_property", w, <<name>>, "done", 0),
                               ub \/ Touches({node_ptr[w]}))
  /\ UNCHANGED parseVars

\* Node::to_string: xmlBufferCreate, xmlNodeDump, the copy into a String,
\* xmlBufferFree.
NodeToString(w, format) ==
  /\ Running /\ Usable(w)
  /\ LET buf == xmlBufferCreate(heap)
         node_string == to_owned(<<format, Dump(buf, node_ptr[w])>>)
     IN  Mutates(xmlBufferFree(buf),
                 Ret("node_to_string", w, <<>>, "done", node_string),
                 ub \/ Touches(Subtree(heap, node_ptr[w])))
  /\ UNCHANGED parseVars

\* Document::to_string: xmlDocDump(Format)MemoryEnc allocates the buffer it
\* stores in receiver; the String is copied out of it; mem::forget(receiver)
\* forgets the pointer, and nothing frees the buffer.
DocToString(d, format) ==
  /\ Running /\ HasDoc(d)
  /\ LET receiver == xmlDocDumpMemoryEnc(heap, d)
         kids == receiver.dchildren[d]
         node_string == to_owned(<<format, [i \in 1..Len(kids) |->
                                             Dump(receiver, kids[i])]>>)
     IN  Mutates(receiver, Ret("doc_to_string", 0, <<>>, "done", node_string),
                 ub \/ Touches(TreeOf(heap, d)))
  /\ UNCHANGED parseVars

\* Document::save_file: xmlSaveFile returns the bytes written, or -1.
SaveFile(d, filename, retval) ==
  /\ Running /\ HasDoc(d)
  /\ LET c_filename == CString_new(filename)
     IN  IF ~c_filename.ok
         THEN Returns(Ret("save_file", 0, <<filename>>, "panic", 0), ub)
         ELSE IF retval < 0
         THEN Returns(Ret("save_file", 0, <<filename>>, "Err", 0),
                      ub \/ Touches(TreeOf(heap, d)))
         ELSE Returns(Ret("save_file", 0, <<filename>>, "Ok", retval),
                      ub \/ Touches(TreeOf(heap, d)))
  /\ UNCHANGED parseVars

Next ==
  \/ \E d \in Docs : GetRootElement(d)
  \/ \E d \in Docs, w \in Wrappers : SetRootElement(d, w)
  \/ \E d \in Docs : DropDoc(d)
  \/ \E d \in Docs : NodeNew(d, <<110>>)
  \/ \E w \in Wrappers : GetFirstChild(w)
  \/ \E w \in Wrappers : GetLastChild(w)
  \/ \E w \in Wrappers : GetNextSibling(w)
  \/ \E w, c \in Wrappers : AddChild(w, c)
  \/ \E w, s \in Wrappers : AddPrevSibling(w, s)
  \/ \E w \in Wrappers : Unlink(w)
  \/ \E w \in Wrappers : DropNode(w)

Spec == Init /\ [][Next]_vars

\* The operations that read and write names, attributes and text, on the
\* wrappers get_root_element and Node::new hand out.
NextContent ==
  \/ \E d \in Docs : GetRootElement(d)
  \/ \E d \in Docs, name \in Strs : NodeNew(d, name)
  \/ \E w \in Wrappers, name \in Strs : SetName(w, name)
  \/ \E w \in Wrappers, content \in Texts : AppendText(w, content)
  \/ \E w \in Wrappers, name \in Strs : GetProperty(w, name)
  \/ \E w \in Wrappers : GetProperties(w)
  \/ \E w \in Wrappers, name, value \in Strs : SetProperty(w, name, value)
  \/ \E w \in Wrappers, name \in Strs : RemoveProperty(w, name)
  \/ \E w \in Wrappers, format \in BOOLEAN : NodeToString(w, format)
  \/ \E d \in Docs, format \in BOOLEAN : DocToString(d, format)
  \/ \E d \in Docs, filename \in Strs, retval \in {-1, 1} :
       SaveFile(d, filename, retval)

SpecContent == Init /\ [][NextContent]_vars

\* Two Documents: navigation in both, import from one into the other, and the
\* operations that change a node, each with one input: set_name("a"),
\* append_text("a"), set_property("b", "b"), remove_property("b").
NextImport ==
  \/ \E d \in Docs : ops < MaxImportOps /\ GetRootElement(d)
  \/ \E w \in Wrappers : ops < MaxImportOps /\ GetFirstChild(w)
  \/ \E d \in Docs, w \in Wrappers : ops < MaxImportOps /\ ImportNode(d, w)
  \/ \E d \in Docs, w \in Wrappers : ops < MaxImportOps /\ SetRootElement(d, w)
  \/ \E w, c \in Wrappers : ops < MaxImportOps /\ AddChild(w, c)
  \/ \E w \in Wrappers : ops < MaxImportOps /\ Unlink(w)
  \/ \E w \in Wrappers : ops < MaxImportOps /\ SetName(w, <<97>>)
  \/ \E w \in Wrappers : ops < MaxImportOps /\ AppendText(w, <<97>>)
  \/ \E w \in Wrappers : ops < MaxImportOps /\ SetProperty(w, <<98>>, <<98>>)
  \/ \E w \in Wrappers : ops < MaxImportOps /\ RemoveProperty(w, <<98>>)

SpecImport == InitImport /\ [][NextImport]_vars

\* The attribute operations alone, on the wrappers of the root element.
\* Navigation, node types and unlink, over documents whose children are
\* elements or text and with a natively made node of any type.
NextType ==
  \/ ops < MaxTypeOps /\ \E d \in Docs : GetRootElement(d)
  \/ ops < MaxTypeOps /\ \E d \in Docs, h \in Handles : NodeWrap(d, h)
  \/ ops < MaxTypeOps /\ \E w \in Wrappers : GetType(w)
  \/ ops < MaxTypeOps /\ \E w \in Wrappers : GetFirstChild(w)
  \/ ops < MaxTypeOps /\ \E w \in Wrappers : GetNextSibling(w)
  \/ ops < MaxTypeOps /\ \E w \in Wrappers : GetChildNodes(w)
  \/ ops < MaxTypeOps /\ \E w \in Wrappers : GetChildElements(w)
  \/ ops < MaxTypeOps /\ \E w \in Wrappers : Unlink(w)

SpecType == InitType /\ [][NextType]_vars

NextAttr ==
  \/ \E d \in Docs : GetRootElement(d)
  \/ \E w \in Wrappers, name \in Strs : GetProperty(w, name)
  \/ \E w \in Wrappers : GetProperties(w)
  \/ \E w \in Wrappers, name, value \in Strs : SetProperty(w, name, value)
  \/ \E w \in Wrappers, name \in Strs : RemoveProperty(w, name)

SpecAttr == Init /\ [][NextAttr]_vars


\* ------------------------------------------------------------ parse
\* Document::parse_handler, one action per foreign call.  The foreign parser
\* runs between ParseInstall and ParserReturn and reports each diagnostic to
\* the structured error function that is installed at that moment.

\* xmlResetLastError; xmlSetStructuredErrorFunc(errors_ptr, Some(error_vec_pusher))
ParseInstall(c) ==
  /\ ppc[c] \in {"idle", "returned", "panicked"}
  /\ ppc' = [ppc EXCEPT ![c] = "installed"]
  /\ errors' = [errors EXCEPT ![c] = <<>>]
  /\ handler' = c
  /\ pdoc' = [pdoc EXCEPT ![c] = "none"]
  /\ presult' = [presult EXCEPT ![c] = "none"]
  /\ nullFrees' = [nullFrees EXCEPT ![c] = 0]
  /\ ptrace' = [ptrace EXCEPT ![c] = <<"install">>]
  /\ emitted' = [emitted EXCEPT ![c] = <<>>]
  /\ UNCHANGED treeVars

\* Document::parse_string: the three CString::new(..).unwrap() calls, which
\* panic on a NUL byte before anything else is done, then parse_handler up to
\* the installation of the callback.
parse_string(c, xml_str, url, encoding) ==
  IF CString_new(xml_str).ok /\ CString_new(encoding).ok /\ CString_new(url).ok
  THEN ParseInstall(c)
  ELSE /\ ppc[c] \in {"idle", "returned", "panicked"}
       /\ ppc' = [ppc EXCEPT ![c] = "panicked"]
       /\ presult' = [presult EXCEPT ![c] = "panic"]
       /\ errors' = [errors EXCEPT ![c] = <<>>]
       /\ pdoc' = [pdoc EXCEPT ![c] = "none"]
       /\ nullFrees' = [nullFrees EXCEPT ![c] = 0]
       /\ ptrace' = [ptrace EXCEPT ![c] = <<>>]
       /\ emitted' = [emitted EXCEPT ![c] = <<>>]
       /\ UNCHANGED handler
       /\ UNCHANGED treeVars

\* error_vec_pusher(ctx, error): pushes the diagnostic onto the Vec ctx points to.
error_vec_pusher(errs, ctx, e) == [errs EXCEPT ![ctx] = Append(@, e)]

\* The parser of call c emits one diagnostic: libxml2 hands it to the
\* structured error function installed at that moment, with its context; with
\* none installed the diagnostic goes to the default handler and no list.
ParserEmit(c, e) ==
  /\ ppc[c] = "installed"
  /\ Len(emitted[c]) < MaxDiag
  /\ emitted' = [emitted EXCEPT ![c] = Append(@, e)]
  /\ errors' = IF handler = 0 THEN errors ELSE error_vec_pusher(errors, handler, e)
  /\ UNCHANGED <<handler, ppc, pdoc, presult, ptrace, nullFrees>>
  /\ UNCHANGED treeVars

\* parse_closure() returns: a document, or null.
ParserReturn(c, r) ==
  /\ ppc[c] = "installed"
  /\ ppc' = [ppc EXCEPT ![c] = "parsed"]
  /\ pdoc' = [pdoc EXCEPT ![c] = r]
  /\ ptrace' = [ptrace EXCEPT ![c] = Append(@, "parse")]
  /\ UNCHANGED <<handler, errors, presult, nullFrees, emitted>>
  /\ UNCHANGED treeVars

\* Faulty variant: a null result returns before the callback is uninstalled.
ParseUninstall_onDocOnly(c) ==
  /\ ppc[c] = "parsed"
  /\ ppc' = [ppc EXCEPT ![c] = "uninstalled"]
  /\ handler' = IF pdoc[c] = "null" THEN handler ELSE 0
  /\ ptrace' = [ptrace EXCEPT ![c] = IF pdoc[c] = "null" THEN @
                                     ELSE Append(@, "uninstall")]
  /\ UNCHANGED <<errors, pdoc, presult, nullFrees, emitted>>
  /\ UNCHANGED treeVars

\* xmlSetStructuredErrorFunc(ptr::null_mut(), None)
ParseUninstall(c) ==
  /\ ppc[c] = "parsed"
  /\ ppc' = [ppc EXCEPT ![c] = "uninstalled"]
  /\ handler' = 0
  /\ ptrace' = [ptrace EXCEPT ![c] = Append(@, "uninstall")]
  /\ UNCHANGED <<errors, pdoc, presult, nullFrees, emitted>>
  /\ UNCHANGED treeVars

\* Faulty variant: the Ok branch builds the _Document with an empty list.
HandleResult_discard(c) ==
  /\ ppc[c] = "uninstalled"
  /\ ppc' = [ppc EXCEPT ![c] = "returned"]
  /\ IF pdoc[c] = "null"
     THEN /\ nullFrees' = [nullFrees EXCEPT ![c] = 1]
          /\ presult' = [presult EXCEPT ![c] = "Err"]
          /\ errors' = errors
     ELSE /\ nullFrees' = nullFrees
          /\ presult' = [presult EXCEPT ![c] = "Ok"]
          /\ errors' = [errors EXCEPT ![c] = <<>>]
  /\ UNCHANGED <<handler, pdoc, ptrace, emitted>>
  /\ UNCHANGED treeVars

\* Document::handle_result_ptrs: the Vec in the Box is moved into Err(..) on a
\* null handle (after xmlFreeDoc is called on that handle) and into the errors
\* field of the new _Document otherwise; errors[c] is that Vec in both cases.
HandleResult(c) ==
  /\ ppc[c] = "uninstalled"
  /\ ppc' = [ppc EXCEPT ![c] = "returned"]
  /\ IF pdoc[c] = "null"
     THEN /\ nullFrees' = [nullFrees EXCEPT ![c] = 1]
          /\ presult' = [presult EXCEPT ![c] = "Err"]
     ELSE /\ nullFrees' = nullFrees
          /\ presult' = [presult EXCEPT ![c] = "Ok"]
  /\ UNCHANGED <<handler, errors, pdoc, ptrace, emitted>>
  /\ UNCHANGED treeVars

NextParse ==
  \/ \E c \in Callers, xml_str, url, encoding \in Strs :
       parse_string(c, xml_str, url, encoding)
  \/ \E c \in Callers, e \in Diags : ParserEmit(c, e)
  \/ \E c \in Callers, r \in {"doc", "null"} : ParserReturn(c, r)
  \/ \E c \in Callers : ParseUninstall(c)
  \/ \E c \in Callers : HandleResult(c)

SpecParse == Init /\ [][NextParse]_vars

\* Two parse calls, each made once, whose install/parse/uninstall windows may
\* overlap: parse is an associated function that takes no lock, and the
\* structured error function is one process-wide slot.
NextOverlap ==
  \/ \E c \in Calls : ppc[c] = "idle" /\ ParseInstall(c)
  \/ \E c \in Calls, e \in Diags : ParserEmit(c, e)
  \/ \E c \in Calls, r \in {"doc", "null"} : ParserReturn(c, r)
  \/ \E c \in Calls : ParseUninstall(c)
  \/ \E c \in Calls : HandleResult(c)

SpecOverlap == Init /\ [][NextOverlap]_vars


\* ------------------------------------------------------------ properties

\* C1: identity uniqueness: two live wrapper objects of one Document that refer
\* to the same native handle are the same object.
C1_IdentityUniqueness ==
  \A w1, w2 \in Wrappers :
    (alive[w1] /\ alive[w2] /\ document[w1] = document[w2]
       /\ node_ptr[w1] = node_ptr[w2]) => w1 = w2

\* C2: xmlFreeNode is called at most once for every native handle.
C2_FreeAtMostOnce ==
  \A h \in Handles : heap.freeCalls[h] <= 1

\* C3: after a successful add_child(child), child is Linked (its detached
\* state is cleared) and its handle is registered in the identity map.
C3_AddChildLinksChild ==
  (ret.op = "add_child" /\ ret.res = "Ok") =>
    /\ ~unlinked[ret.arg]
    /\ nodes[document[ret.self]][node_ptr[ret.arg]] # 0

\* C4: once the caller holds neither the Document nor any Node of it, the
\* native document has been released, exactly once.
C4_DocReleasedWhenUnheld ==
  \A d \in Docs :
    (docobj[d] # "none" /\ doc_refs[d] = 0
       /\ \A w \in Wrappers : (alive[w] /\ document[w] = d) => ~held[w])
    => (heap.dmem[d] = "freed" /\ heap.dfreeCalls[d] = 1)

\* C5: while the caller holds the Document, or any _Node referencing it
\* exists, the native document has not been released; it is released only by
\* the drop of the _Document.
C5_DocOutlivesNodes ==
  \A d \in Docs :
    /\ (doc_refs[d] > 0 \/ \E w \in Wrappers : alive[w] /\ document[w] = d)
         => (docobj[d] = "live" /\ heap.dmem[d] = "live" /\ heap.dfreeCalls[d] = 0)
    /\ heap.dmem[d] = "freed" => (docobj[d] = "dropped" /\ heap.dfreeCalls[d] = 1)

\* A _Node outlives the caller's Document handle and the document is intact.
C5_Witness ==
  \E d \in Docs :
    /\ doc_refs[d] = 0
    /\ \E w \in Wrappers : alive[w] /\ held[w] /\ document[w] = d
    /\ heap.dmem[d] = "live"

\* C6: unlink() on a wrapper that is not marked unlinked, of a node that is
\* neither a document nor a document fragment, in one step marks the wrapper
\* unlinked, removes the handle from the identity map and detaches the node
\* from its parent and siblings.
C6_UnlinkDetaches ==
  [][\A w \in Wrappers :
       (ret'.op = "unlink" /\ ret'.self = w /\ ops' = ops + 1
          /\ get_type(w) # "DocumentNode" /\ get_type(w) # "DocumentFragNode"
          /\ ~unlinked[w])
       => /\ unlinked'[w]
          /\ nodes'[document[w]][node_ptr[w]] = 0
          /\ heap'.parent[node_ptr[w]] = NULL
          /\ \A h \in Handles : ~InSeq(heap'.children[h], node_ptr[w])
          /\ \A d \in Docs : ~InSeq(heap'.dchildren[d], node_ptr[w])]_vars

\* unlink() has detached a node of which a second wrapper exists.
C6_Witness ==
  /\ ret.op = "unlink" /\ ret.res = "done"
  /\ unlinked[ret.self]
  /\ \E w \in Wrappers : w # ret.self /\ alive[w] /\ node_ptr[w] = node_ptr[ret.self]

\* C7: the identity map holds no wrapper for a handle that has been freed or
\* that the Document's tree no longer contains.
C7_MapAgreesWithTree ==
  \A d \in Docs, h \in Handles :
    nodes[d][h] # 0 =>
      /\ heap.mem[h] = "live"
      /\ (h \in TreeOf(heap, d) \/ ~heap.linked[h])

\* C8: add_child whose native call returns null returns Err and leaves the
\* identity map, every Linked/Detached flag and the set of wrappers unchanged.
C8_AddChildFailureKeepsState ==
  [][\A w, c \in Wrappers :
       (ret'.op = "add_child" /\ ret'.self = w /\ ret'.arg = c /\ ops' = ops + 1
          /\ xmlAddChildResult(node_ptr[w], node_ptr[c]) = NULL)
       => /\ ret'.res = "Err"
          /\ UNCHANGED <<nodes, unlinked, alive, held, node_ptr, document,
                         docobj, doc_refs, heap>>]_vars

\* add_child has failed at the native layer.
C8_Witness ==
  /\ ret.op = "add_child" /\ ret.res = "Err"
  /\ node_ptr[ret.self] = node_ptr[ret.arg]

\* C9: add_prev_sibling returns the inserted node on success, and the accepted
\* node is then Linked and registered in the identity map.
C9_AddPrevSiblingLinks ==
  (ret.op = "add_prev_sibling" /\ ret.res = "Some") =>
    /\ ret.out = ret.arg
    /\ ~unlinked[ret.arg]
    /\ nodes[document[ret.arg]][node_ptr[ret.arg]] # 0

\* C10: every parse call makes its foreign calls in the order install, parse,
\* uninstall; once the parser has returned and the next statement has run, and
\* from then on until parse returns, no callback is installed.
ParseOrder == <<"install", "parse", "uninstall">>

C10_ParseWindow ==
  \A c \in Callers :
    /\ \E n \in 0..Len(ParseOrder) : ptrace[c] = SubSeq(ParseOrder, 1, n)
    /\ ppc[c] \in {"uninstalled", "returned"} =>
         (ptrace[c] = ParseOrder /\ handler = 0)
    /\ ppc[c] = "parsed" => ptrace[c] = SubSeq(ParseOrder, 1, 2)

\* parse has returned after the parser reported a diagnostic and returned null.
C10_Witness ==
  \E c \in Callers :
    ppc[c] = "returned" /\ pdoc[c] = "null" /\ errors[c] # <<>> /\ handler = 0

\* C11: when the foreign parser returns a null handle, parse returns Err with
\* the diagnostics collected, creates no Document, and has made no xmlFreeDoc
\* call on the null handle.
C11_NullResultNoFree ==
  \A c \in Callers :
    (ppc[c] = "returned" /\ pdoc[c] = "null")
    => /\ presult[c] = "Err"
       /\ errors[c] = emitted[c]
       /\ nullFrees[c] = 0

\* C12: in every interleaving of parse calls, the list of a call holds exactly
\* the diagnostics its own parser reported, and while a call's parser runs the
\* process-wide handler points at that call's list; the handler never points
\* at the list of a call that has returned.
C12_ParseCallsIsolated ==
  /\ \A c \in Calls : ppc[c] # "idle" => errors[c] = emitted[c]
  /\ \A c \in Calls : ppc[c] = "installed" => handler = c
  /\ handler # 0 => ppc[handler] \notin {"idle", "returned"}

\* C20: a parse whose parser returns a document returns Ok, and the list the
\* Document holds is the diagnostics the parser reported, in the order
\* reported: non-empty when there was one, empty when there was none.
C20_DiagnosticsKept ==
  \A c \in Callers :
    (ppc[c] = "returned" /\ pdoc[c] = "doc")
    => /\ presult[c] = "Ok"
       /\ errors[c] = emitted[c]
       /\ (emitted[c] # <<>>) <=> (Len(errors[c]) > 0)

\* parse has returned a Document after the parser reported two different
\* diagnostics.
C20_Witness ==
  \E c \in Callers :
    /\ ppc[c] = "returned" /\ presult[c] = "Ok"
    /\ Len(emitted[c]) >= 2 /\ emitted[c][1] # emitted[c][2]

\* C13: no operation panics: every operation that is passed a string holding
\* a NUL byte (parse, Node::new, set_name, set_property, get_property,
\* remove_property, append_text, save_file) returns the typed error
\* InvalidInputError.
StrOps ==
  {"new", "set_name", "set_property", "get_property", "remove_property",
   "append_text", "save_file"}

C13_NulInputRejected ==
  /\ (ret.op \in StrOps /\ \E i \in 1..Len(ret.arg) : HasNul(ret.arg[i]))
       => ret.res = "InvalidInputError"
  /\ ret.res # "panic"
  /\ \A c \in Calls : presult[c] # "panic"

\* C18: no serialize call leaves a buffer it obtained from the foreign library
\* unreleased: between operations every such buffer has been freed.
C18_BuffersReleased == heap.bufs = 0

\* C19: attribute round trip on one element node.  set_property(n, v) makes
\* the value of n Some(v) and remove_property(n) makes it None, each leaving
\* the value of every other name as it was; a get_property(n) that follows
\* returns that value; get_properties() returns the map that has exactly the
\* names that are set, each once, with their current values.
NulFree == {s \in Strs : ~HasNul(s)}

C19_AttributeRoundTrip ==
  [][\A w \in Wrappers :
       (ops' = ops + 1 /\ ret'.self = w /\ ret'.res # "panic" /\ ~ub'
          /\ heap.type[node_ptr[w]] = XML_ELEMENT_NODE)
       => LET h == node_ptr[w]
              others(n) == \A m \in NulFree \ {n} :
                             get_property(heap', h, m) = get_property(heap, h, m)
              ps == heap'.properties[h]
          IN  /\ ret'.op = "set_property"
                   => /\ get_property(heap', h, ret'.arg[1]) = <<ret'.arg[2]>>
                      /\ others(ret'.arg[1])
              /\ ret'.op = "remove_property"
                   => /\ get_property(heap', h, ret'.arg[1]) = <<>>
                      /\ others(ret'.arg[1])
              /\ (ret'.op = "get_property" /\ ret.op = "set_property"
                    /\ ret.res = "done" /\ node_ptr[ret.self] = h
                    /\ ret.arg[1] = ret'.arg[1])
                   => (ret'.res = "Some" /\ ret'.out = ret.arg[2])
              /\ (ret'.op = "get_property" /\ ret.op = "remove_property"
                    /\ ret.res = "done" /\ node_ptr[ret.self] = h
                    /\ ret.arg[1] = ret'.arg[1])
                   => ret'.res = "None"
              /\ ret'.op = "get_properties"
                   => /\ ret'.out =
                           [m \in {n \in NulFree : get_property(heap, h, n) # <<>>}
                              |-> get_property(heap, h, m)[1]]
                      /\ \A i, j \in 1..Len(ps) : ps[i].name = ps[j].name => i = j
                      /\ heap' = heap]_vars

\* get_properties has returned both names with their values, through one of
\* two wrappers of the node.
C19_Witness ==
  /\ ret.op = "get_properties"
  /\ DOMAIN ret.out = NulFree
  /\ \E n \in NulFree : ret.out[n] # n
  /\ \E n \in NulFree : ret.out[n] = n
  /\ \E w \in Wrappers : w # ret.self /\ alive[w] /\ node_ptr[w] = node_ptr[ret.self]

\* What a Document's tree is: its top-level nodes and, for every node it
\* contains, the node's parent, children, name, attributes and text.
DocView(hp, a) ==
  [top |-> hp.dchildren[a],
   node |-> [h \in TreeOf(hp, a) |->
               <<hp.mem[h], hp.parent[h], hp.children[h], hp.name[h],
                 hp.properties[h], hp.content[h]>>]]

Mutators ==
  {"set_name", "set_property", "remove_property", "append_text", "add_child",
   "unlink"}

\* C14: import_node of a wrapper's node into Document d returns a wrapper of
\* a handle that did not exist before, owned by d and registered in d's map,
\* whose subtree equals the source subtree in names, attributes, text and
\* children; the import leaves the tree of every Document and the map of every
\* other Document unchanged, and so does every later set_name, set_property,
\* remove_property, append_text, add_child and unlink on the copy, for the
\* source subtree (unless the copy has been attached inside it) and for every
\* other Document whose tree the copy is not in.
C14_ImportIsolated ==
  [][/\ (ret'.op = "import_node" /\ ops' = ops + 1 /\ ret'.res = "Some" /\ ~ub')
          => LET src == node_ptr[ret'.arg]
                 new == node_ptr'[ret'.out]
                 d == ret'.self - MaxHandles
             IN  /\ new # src /\ heap.mem[new] = "unalloc"
                 /\ document'[ret'.out] = d
                 /\ nodes'[d][new] = ret'.out
                 /\ Dump(heap', new) = Dump(heap, src)
                 /\ \A a \in Docs :
                      /\ DocView(heap', a) = DocView(heap, a)
                      /\ a # d => nodes'[a] = nodes[a]
     /\ \A w \in Wrappers :
          (ops' = ops + 1 /\ ret'.op \in Mutators /\ ret'.self = w /\ ~ub'
             /\ heap.copyOf[node_ptr[w]] # NULL)
          => /\ node_ptr[w] \notin Subtree(heap, heap.copyOf[node_ptr[w]])
                  => Dump(heap', heap.copyOf[node_ptr[w]])
                       = Dump(heap, heap.copyOf[node_ptr[w]])
             /\ \A a \in Docs \ {document[w]} :
                  node_ptr[w] \notin TreeOf(heap, a)
                  => /\ DocView(heap', a) = DocView(heap, a)
                     /\ nodes'[a] = nodes[a]]_vars

\* A copy of a node with a child, imported from document 1 into document 2,
\* has been changed and now differs from its source.
C14_Witness ==
  /\ ret.op \in Mutators /\ ret.res = "done"
  /\ document[ret.self] = 2
  /\ heap.copyOf[node_ptr[ret.self]] \in TreeOf(heap, 1)
  /\ heap.children[node_ptr[ret.self]] # <<>>
  /\ Dump(heap, node_ptr[ret.self]) # Dump(heap, heap.copyOf[node_ptr[ret.self]])

\* C15: import_node attaches the copy nowhere: no Document's top-level list
\* and no existing node's parent or children change, and the copy has no
\* parent; a successful add_child of the imported node appends it to the
\* parent's children, which become one more.
C15_ImportDoesNotAttach ==
  [][/\ (ret'.op = "import_node" /\ ops' = ops + 1 /\ ret'.res = "Some" /\ ~ub')
          => LET new == node_ptr'[ret'.out]
             IN  /\ heap'.dchildren = heap.dchildren
                 /\ \A h \in Handles :
                      heap.mem[h] # "unalloc"
                      => /\ heap'.children[h] = heap.children[h]
                         /\ heap'.parent[h] = heap.parent[h]
                 /\ heap'.parent[new] = NULL
                 /\ \A a \in Docs : new \notin TreeOf(heap', a)
     /\ \A w, c \in Wrappers :
          (ops' = ops + 1 /\ ret'.op = "add_child" /\ ret'.res = "Ok"
             /\ ret'.self = w /\ ret'.arg = c /\ ~ub'
             /\ heap.copyOf[node_ptr[c]] # NULL)
          => /\ Len(heap'.children[node_ptr[w]])
                  = Len(heap.children[node_ptr[w]]) + 1
             /\ heap'.children[node_ptr[w]]
                  = Append(heap.children[node_ptr[w]], node_ptr[c])]_vars

\* An imported node has been added to a parent that had a child already.
C15_Witness ==
  /\ ret.op = "add_child" /\ ret.res = "Ok"
  /\ heap.copyOf[node_ptr[ret.arg]] # NULL
  /\ Len(heap.children[node_ptr[ret.self]]) = 2
  /\ heap.parent[node_ptr[ret.arg]] = node_ptr[ret.self]

\* C16: set_root_element(node) of a Document installs only a node whose
\* wrapper is owned by that Document.
C16_RootOwnedByDocument ==
  \A d \in Docs :
    (ret.op = "set_root_element" /\ ret.self = DocPtr(d))
    => document[ret.arg] = d

\* C17: an unlink that detaches a node from a parent leaves that parent's
\* child list as it was without the node, one shorter and in the same order,
\* and leaves the node's name, attributes, text and children as they were; a
\* successful add_child of an unlinked node appends it to the new parent with
\* its name, attributes, text and children as they were.
C17_UnlinkReattach ==
  [][/\ \A w \in Wrappers :
          (ops' = ops + 1 /\ ret'.op = "unlink" /\ ret'.res = "done"
             /\ ret'.self = w /\ ~ub' /\ heap.parent[node_ptr[w]] # NULL)
          => LET n == node_ptr[w]
                 before == Siblings(heap, n)
                 after == IF heap.parent[n] \in DocPtrs
                          THEN heap'.dchildren[heap.parent[n] - MaxHandles]
                          ELSE heap'.children[heap.parent[n]]
             IN  /\ Len(after) = Len(before) - 1
                 /\ after = Remove(before, n)
                 /\ heap'.parent[n] = NULL
                 /\ Dump(heap', n) = Dump(heap, n)
     /\ \A w, c \in Wrappers :
          (ops' = ops + 1 /\ ret'.op = "add_child" /\ ret'.res = "Ok"
             /\ ret'.self = w /\ ret'.arg = c /\ ~ub' /\ unlinked[c])
          => /\ heap'.parent[node_ptr[c]] = node_ptr[w]
             /\ heap'.children[node_ptr[w]]
                  = Append(heap.children[node_ptr[w]], node_ptr[c])
             /\ Dump(heap', node_ptr[c]) = Dump(heap, node_ptr[c])]_vars

\* A node that was unlinked from between a parent and a following sibling
\* has been attached again, behind that sibling.
C17_Witness ==
  /\ ret.op = "add_child" /\ ret.res = "Ok" /\ ~ub
  /\ unlinked[ret.arg]
  /\ heap.children[node_ptr[ret.self]] = <<3, 2>>
  /\ node_ptr[ret.arg] = 2

\* C25: get_type returns, for a type_ tag from 1 to 21, the variant of enum
\* NodeType at that position of the declaration, a different variant for
\* each tag, and None for every other tag (0 and those above 21).
C25_FromCIntTable ==
  /\ ret.op = "get_type"
       => ret.res = IF ret.arg \in 1..Len(NodeType) THEN NodeType[ret.arg]
                    ELSE "None"
  /\ \A i, j \in 1..Len(NodeType) :
       from_c_int(i) = from_c_int(j) => i = j

\* get_type has read the last tag that has a variant.
C25_Witness ==
  /\ ret.op = "get_type" /\ ret.arg = Len(NodeType)
  /\ ret.res = "DOCBDocumentNode"

\* C21: unlink of a wrapper whose node is of document or document-fragment
\* type does not call xmlUnlinkNode and leaves the wrapper's unlinked flag,
\* every identity map and the native tree as they were.
C21_UnlinkNoOpOnDocumentTypes ==
  [][\A w \in Wrappers :
       (ops' = ops + 1 /\ ret'.op = "unlink" /\ ret'.self = w /\ ~ub'
          /\ heap.type[node_ptr[w]] \in {XML_DOCUMENT_NODE, XML_DOCUMENT_FRAG_NODE})
       => /\ ret'.res = "noop"
          /\ unlinked' = unlinked
          /\ nodes' = nodes
          /\ heap' = heap]_vars

\* unlink has returned on a Linked wrapper of a document-fragment node.
C21_Witness ==
  /\ ret.op = "unlink" /\ ret.res = "noop"
  /\ heap.type[node_ptr[ret.self]] = XML_DOCUMENT_FRAG_NODE
  /\ ~unlinked[ret.self]

\* The handles of a list of wrappers.
PtrsOf(ws) == [i \in 1..Len(ws) |-> node_ptr[ws[i]]]

\* C24: get_child_nodes returns wrappers of exactly the children of the node,
\* each once and in sibling order; get_child_elements returns wrappers of
\* exactly those children whose type is element, in the same order; the
\* handle of every returned wrapper is registered in the identity map of the
\* node's Document.
C24_ChildListsExact ==
  (ret.op \in {"get_child_nodes", "get_child_elements"} /\ ~ub)
  => LET children == heap.children[node_ptr[ret.self]]
         ptrs == PtrsOf(ret.out)
     IN  /\ ret.op = "get_child_nodes" => ptrs = children
         /\ ret.op = "get_child_elements"
              => ptrs = SelectSeq(children,
                                  LAMBDA h : heap.type[h] = XML_ELEMENT_NODE)
         /\ Cardinality({ptrs[i] : i \in 1..Len(ptrs)}) = Len(ptrs)
         /\ \A i \in 1..Len(ptrs) :
              nodes[document[ret.self]][ptrs[i]] # 0

\* get_child_elements of a node with a text child followed by an element
\* child has returned the element alone.
C24_Witness ==
  /\ ret.op = "get_child_elements" /\ ~ub
  /\ heap.children[node_ptr[ret.self]] = <<2, 3>>
  /\ heap.type[2] = XML_TEXT_NODE
  /\ PtrsOf(ret.out) = <<3>>

\* The contract of Node::new, with linkers the operations said to attach the
\* node afterwards.  On native success the wrapper returned is bound to the
\* Document, its handle is new and registered under it in that Document's
\* identity map, and the node has no parent and is in no tree (so it is not
\* the root); on native failure Err is returned and no identity map changes;
\* a node that was never linked gets a parent only in a step of one of the
\* linkers with the node as the argument.
NewContract(linkers) ==
  /\ (ret'.op = "new" /\ ops' = ops + 1 /\ ret'.res = "Ok")
       => LET w == ret'.out
              h == node_ptr'[w]
              d == ret'.self - MaxHandles
          IN  /\ heap.mem[h] # "live" /\ heap'.mem[h] = "live"
              /\ document'[w] = d
              /\ nodes'[d][h] = w
              /\ heap'.parent[h] = NULL
              /\ \A a \in Docs : h \notin TreeOf(heap', a)
              /\ xmlDocGetRootElement(heap', d) # h
  /\ (ret'.op = "new" /\ ops' = ops + 1 /\ ret'.res = "Err")
       => nodes' = nodes
  /\ \A h \in Handles :
       (ops' = ops + 1 /\ ~ub' /\ heap.mem[h] = "live" /\ ~heap.linked[h]
          /\ heap.parent[h] = NULL /\ heap'.parent[h] # NULL)
       => (ret'.op \in linkers /\ node_ptr[ret'.arg] = h)

\* C22 as stated: Node::new returns a registered, unattached node of the
\* Document, or an error that leaves the identity map alone, and the node
\* stays unattached until add_child or set_root_element links it.
C22_NewUnattachedUntilLinked ==
  [][NewContract({"add_child", "set_root_element"})]_vars

\* C22 with add_prev_sibling among the operations that link the node.
C22_NewUnattachedUntilLinkedBySibling ==
  [][NewContract({"add_child", "set_root_element", "add_prev_sibling"})]_vars

\* A node made by Node::new has been inserted as the root's previous sibling.
C22_Witness ==
  /\ ret.op = "add_prev_sibling" /\ ret.res = "Some" /\ ~ub
  /\ node_ptr[ret.arg] = 4
  /\ heap.parent[4] # NULL

\* C23: the node of every wrapper that is Linked (not marked unlinked) is in
\* the tree of the wrapper's Document, and once no wrapper of a handle that
\* was allocated after the parse (by Node::new or import_node) is left and no
\* Document is left, the handle has been released, exactly once.
C23_LinkedNodesOwnedByTree ==
  ~ub =>
    /\ \A w \in Wrappers :
         (alive[w] /\ ~unlinked[w])
         => node_ptr[w] \in TreeOf(heap, document[w])
    /\ \A h \in Handles :
         (heap.mem[h] # "unalloc" /\ InitHeap.mem[h] = "unalloc"
            /\ (\A w \in Wrappers : alive[w] => node_ptr[w] # h)
            /\ (\A d \in Docs : docobj[d] # "live"))
         => (heap.mem[h] = "freed" /\ heap.freeCalls[h] <= 1)

====
